---- MODULE Spec2Model ----
(***************************************************************************)
(* Clickhouse dialect of data-diff (data_diff/databases/clickhouse.py).    *)
(*                                                                         *)
(* The dialect builds SQL fragments.  Every fragment is modelled by the    *)
(* value it evaluates to: each SQL function that occurs in a fragment is   *)
(* an operator of this module, and the operator named after the Python     *)
(* method composes them exactly as the fragment nests them.                *)
(*                                                                         *)
(* One behaviour is one use of the dialect: Init chooses the call and its  *)
(* arguments, the action named after the method evaluates it.  The         *)
(* connection scenario is the only one with state that lasts between       *)
(* calls (the cursor list of SingleConnection).                            *)
(***************************************************************************)
EXTENDS Integers, Sequences, FiniteSets, TLC

VARIABLES pc, call, result, cursors, returned

vars == <<pc, call, result, cursors, returned>>

(***************************************************************************)
(* Bounds of the model.                                                    *)
(***************************************************************************)
\* scale (fractional digits) of the Decimal column handed to normalize_number
ValueScale == 3
\* the column holds the values -MaxUnits .. MaxUnits, in units of 10^-ValueScale
MaxUnits == 10010
\* normalize_number is called with coltype.precision in 0 .. MaxPrecision
MaxPrecision == 2
\* normalize_timestamp is called with coltype.precision in 0 .. MaxTsPrecision
MaxTsPrecision == 6
\* microsecond samples are m * 10^k and 10^6 - m * 10^k, m in 0 .. MaxMantissa
MaxMantissa == 15
\* cursor() is called at most MaxCalls times on one connection
MaxCalls == 4

(***************************************************************************)
(* Strings.  Python str and Clickhouse String are TLA+ strings.            *)
(***************************************************************************)
Min(a, b) == IF a <= b THEN a ELSE b

Max(a, b) == IF a >= b THEN a ELSE b

RECURSIVE Pow10(_)
Pow10(k) == IF k <= 0 THEN 1 ELSE 10 * Pow10(k - 1)

RECURSIVE Pow2(_)
Pow2(k) == IF k <= 0 THEN 1 ELSE 2 * Pow2(k - 1)

CharAt(s, i) == SubSeq(s, i, i)

RECURSIVE Repeat(_, _)
Repeat(c, n) == IF n <= 0 THEN "" ELSE c \o Repeat(c, n - 1)

\* str.startswith
startswith(s, prefix) ==
    /\ Len(s) >= Len(prefix)
    /\ SubSeq(s, 1, Len(prefix)) = prefix

\* str.rstrip(chars) for a single character
RECURSIVE rstrip(_, _)
rstrip(s, c) ==
    IF Len(s) > 0 /\ CharAt(s, Len(s)) = c
    THEN rstrip(SubSeq(s, 1, Len(s) - 1), c)
    ELSE s

\* s[n:]
SliceFrom(s, n) == SubSeq(s, n + 1, Len(s))

DecimalDigits == "0123456789"

RECURSIVE NatToString(_)
\* the decimal text of a natural number, no leading zeros
NatToString(n) ==
    IF n < 10 THEN CharAt(DecimalDigits, n + 1)
    ELSE NatToString(n \div 10) \o CharAt(DecimalDigits, (n % 10) + 1)

\* Clickhouse left(s, n), n >= 0
left(s, n) == SubSeq(s, 1, Min(n, Len(s)))

\* Clickhouse lpad(s, n, c): pads on the left, or cuts to n characters
lpad(s, n, c) ==
    IF Len(s) >= n THEN SubSeq(s, 1, n) ELSE Repeat(c, n - Len(s)) \o s

\* Clickhouse rpad(s, n, c): pads on the right, or cuts to n characters
rpad(s, n, c) ==
    IF Len(s) >= n THEN SubSeq(s, 1, n) ELSE s \o Repeat(c, n - Len(s))

(***************************************************************************)
(* Type resolution.                                                        *)
(***************************************************************************)
TYPE_CLASSES ==
    ("Int8" :> "Integer") @@ ("Int16" :> "Integer") @@ ("Int32" :> "Integer") @@
    ("Int64" :> "Integer") @@ ("Int128" :> "Integer") @@ ("Int256" :> "Integer") @@
    ("UInt8" :> "Integer") @@ ("UInt16" :> "Integer") @@ ("UInt32" :> "Integer") @@
    ("UInt64" :> "Integer") @@ ("UInt128" :> "Integer") @@ ("UInt256" :> "Integer") @@
    ("Float32" :> "Float") @@ ("Float64" :> "Float") @@
    ("Decimal" :> "Decimal") @@
    ("UUID" :> "Native_UUID") @@
    ("String" :> "Text") @@ ("FixedString" :> "Text") @@
    ("DateTime" :> "Timestamp") @@ ("DateTime64" :> "Timestamp") @@
    ("Bool" :> "Boolean")

UnsupportedType == "UnsupportedType"

\* the column descriptor of schema introspection: both fields carry the raw
\* type string the engine reported
RawColumnInfo(raw) == [type_repr |-> raw, data_type |-> raw]

\* attrs.evolve(info, data_type=...): a copy with that one field replaced
evolve(info, data_type) == [info EXCEPT !.data_type = data_type]

\* BaseDialect.parse_type: the static name -> tag table, or UnsupportedType
BaseParseType(info) ==
    IF info.data_type \in DOMAIN TYPE_CLASSES
    THEN TYPE_CLASSES[info.data_type]
    ELSE UnsupportedType

nullable_prefix == "Nullable("

\* lines 82-83: the test reads type_repr, the copy gets a new data_type
StripNullable(info) ==
    IF startswith(info.type_repr, nullable_prefix)
    THEN evolve(info, rstrip(SliceFrom(info.type_repr, Len(nullable_prefix)), ")"))
    ELSE info

\* lines 85-90: the tests read type_repr, which evolve has left as it was
StripFamily(info) ==
    IF startswith(info.type_repr, "Decimal") THEN evolve(info, "Decimal")
    ELSE IF startswith(info.type_repr, "FixedString") THEN evolve(info, "FixedString")
    ELSE IF startswith(info.type_repr, "DateTime64") THEN evolve(info, "DateTime64")
    ELSE info

parse_type(info) == BaseParseType(StripFamily(StripNullable(info)))

PlainTypes == DOMAIN TYPE_CLASSES

ParameterizedTypes ==
    { "Decimal(10,2)", "Decimal(38, 9)", "FixedString(5)", "DateTime64(3)",
      "DateTime64(6, 'UTC')", "DateTime('UTC')" }

OtherTypes ==
    { "Decimalxyz", "DateTime64xyz", "FixedStringy", "Decimal32(4)", "Date",
      "Date32", "Int7", "Array(Int8)", "Enum8('a' = 1)", "LowCardinality(String)",
      "Nothing", "IPv4", "Map(String, Int8)", "" }

UnwrappedTypes == PlainTypes \cup ParameterizedTypes \cup OtherTypes

Nullable(t) == nullable_prefix \o t \o ")"

RawTypes == UnwrappedTypes \cup { Nullable(t) : t \in UnwrappedTypes }

(***************************************************************************)
(* Numbers.  A Decimal(P, S) value is [units, scale]: units * 10^-scale.   *)
(* A Float64 that occurs in a fragment is kept exact: a ratio              *)
(* [num, den], or NegInf for log10(0).                                     *)
(***************************************************************************)
Decimal(units, scale) == [units |-> units, scale |-> scale]

\* a whole Float64, or log10(0)
Finite(n) == [finite |-> TRUE, value |-> n]

NegInf == [finite |-> FALSE, value |-> 0]

\* Clickhouse abs(Decimal)
abs(d) == Decimal(IF d.units < 0 THEN -d.units ELSE d.units, d.scale)

\* Clickhouse round(Decimal, N): the type is kept, ties go away from zero
round(d, N) ==
    IF N >= d.scale THEN d
    ELSE LET q == Pow10(d.scale - N)
             a == IF d.units < 0 THEN -d.units ELSE d.units
             r == ((a + q \div 2) \div q) * q
         IN  Decimal(IF d.units < 0 THEN -r ELSE r, d.scale)

\* Clickhouse toDecimal128(Decimal, S): rescaling, extra digits are cut
toDecimal128(d, S) ==
    IF S >= d.scale
    THEN Decimal(d.units * Pow10(S - d.scale), S)
    ELSE LET q == Pow10(d.scale - S)
             a == IF d.units < 0 THEN -d.units ELSE d.units
         IN  Decimal(IF d.units < 0 THEN -(a \div q) ELSE a \div q, S)

\* Clickhouse exp10(-k), k >= 0
exp10neg(k) == [num |-> 1, den |-> Pow10(k)]

\* Clickhouse toDecimal128(Float64, S): the float times 10^S, cut to an integer
toDecimal128OfFloat(f, S) == Decimal((f.num * Pow10(S)) \div f.den, S)

\* Decimal + Decimal of one scale
DecimalPlus(a, b) == Decimal(a.units + b.units, a.scale)

\* Clickhouse toString(Decimal): trailing zeros of the fraction are dropped,
\* and the point with them when nothing is left (lines 114-117)
toStringDecimal(d) ==
    LET a    == IF d.units < 0 THEN -d.units ELSE d.units
        q    == Pow10(d.scale)
        frac == rstrip(lpad(NatToString(a % q), d.scale, "0"), "0")
    IN  (IF d.units < 0 THEN "-" ELSE "")
        \o NatToString(a \div q)
        \o (IF frac = "" THEN "" ELSE "." \o frac)

RECURSIVE NumDigits(_)
NumDigits(n) == IF n < 10 THEN 1 ELSE 1 + NumDigits(n \div 10)

\* floor(log10(d)) for d >= 0; log10(0) is -inf and floor keeps it
floor_log10(d) ==
    IF d.units = 0 THEN NegInf ELSE Finite(NumDigits(d.units) - 1 - d.scale)

\* Float64 + integer literal
FloatPlus(x, k) == IF x.finite THEN Finite(x.value + k) ELSE x

\* greatest that lets the -inf of log10(0) through
greatest_KeepsInf(x, k) == IF x.finite THEN Finite(Max(x.value, k)) ELSE x

\* Clickhouse greatest(x, k)
greatest(x, k) == IF x.finite THEN Finite(Max(x.value, k)) ELSE Finite(k)

\* Clickhouse toUInt8 of a non-negative whole Float64
toUInt8(x) == x.value % 256

\* line 136: if(value >= 0, '', '-')
SignPrefix(value) == IF value.units >= 0 THEN "" ELSE "-"

\* the rounded magnitude without the 10^-(precision+1) added
PaddedMagnitude_NoEpsilon(value, precision) ==
    toDecimal128(round(abs(value), precision), precision + 1)

\* lines 138-146: the rounded magnitude plus 10^-(precision+1), one digit wider
PaddedMagnitude(value, precision) ==
    DecimalPlus(toDecimal128(round(abs(value), precision), precision + 1),
                toDecimal128OfFloat(exp10neg(precision + 1), precision + 1))

\* lines 148-153: integer digits + 1 for the point + precision
SliceLength(value, precision) ==
    toUInt8(greatest(FloatPlus(floor_log10(abs(value)), 1), 1)) + 1 + precision

normalize_number(value, precision) ==
    IF precision = 0
    THEN toStringDecimal(round(value, 0))
    ELSE SignPrefix(value)
         \o left(toStringDecimal(PaddedMagnitude(value, precision)),
                 SliceLength(value, precision))

NumberValues == { Decimal(u, ValueScale) : u \in (-MaxUnits) .. MaxUnits }

NumberPrecisions == 0 .. MaxPrecision

(***************************************************************************)
(* Timestamps.  A DateTime64(S) value is [sec, ticks, scale]: the instant  *)
(* sec + ticks * 10^-scale seconds after the epoch, 0 <= ticks < 10^scale. *)
(* An Int64 count of microseconds is [hi, lo] = hi * 10^6 + lo, and the    *)
(* Float64 of seconds it is divided into is [whole, num, den], kept exact. *)
(***************************************************************************)
TIMESTAMP_PRECISION_POS == 20

DateTime64(sec, ticks, scale) == [sec |-> sec, ticks |-> ticks, scale |-> scale]

\* Clickhouse toDateTime64(DateTime64, S): rescaling, extra digits are cut
toDateTime64(value, S) ==
    IF S >= value.scale
    THEN DateTime64(value.sec, value.ticks * Pow10(S - value.scale), S)
    ELSE DateTime64(value.sec, value.ticks \div Pow10(value.scale - S), S)

\* Clickhouse toUnixTimestamp64Micro(DateTime64)
toUnixTimestamp64Micro(value) ==
    [hi |-> value.sec, lo |-> toDateTime64(value, 6).ticks]

\* Int64 % 1000000
ModMillion(x) == x.lo

\* Int64 / 1000000, a Float64
DivMillion(x) == [whole |-> x.hi, num |-> x.lo, den |-> 1000000]

\* Clickhouse round(Float64, N): to the nearest, ties to the even neighbour
roundFloat(f, N) ==
    IF Pow10(N) >= f.den THEN f
    ELSE LET q     == f.den \div Pow10(N)
             k     == f.num \div q
             r     == f.num % q
             lower == IF N = 0 THEN f.whole ELSE k
             up    == 2 * r > q \/ (2 * r = q /\ lower % 2 = 1)
             num   == IF up THEN (k + 1) * q ELSE k * q
         IN  IF num = f.den
             THEN [whole |-> f.whole + 1, num |-> 0, den |-> f.den]
             ELSE [whole |-> f.whole, num |-> num, den |-> f.den]

\* Clickhouse toDateTime64(Float64, S): the seconds times 10^S, cut to an integer
toDateTime64OfFloat(f, S) ==
    DateTime64(f.whole,
               IF Pow10(S) >= f.den
               THEN f.num * (Pow10(S) \div f.den)
               ELSE f.num \div (f.den \div Pow10(S)),
               S)

TwoDigits(n) == lpad(NatToString(n), 2, "0")

\* the civil date of a day number (days since 1970-01-01), proleptic Gregorian
CivilFromDays(days) ==
    LET z   == days + 719468
        era == z \div 146097
        doe == z - era * 146097
        yoe == (doe - doe \div 1460 + doe \div 36524 - doe \div 146096) \div 365
        doy == doe - (365 * yoe + yoe \div 4 - yoe \div 100)
        mp  == (5 * doy + 2) \div 153
        d   == doy - (153 * mp + 2) \div 5 + 1
        m   == IF mp < 10 THEN mp + 3 ELSE mp - 9
        y   == yoe + era * 400 + (IF m <= 2 THEN 1 ELSE 0)
    IN  [year |-> y, month |-> m, day |-> d]

\* Clickhouse formatDateTime(value, '%Y-%m-%d %H:%M:%S'), in UTC
formatDateTime(value) ==
    LET date == CivilFromDays(value.sec \div 86400)
        sod  == value.sec % 86400
    IN  lpad(NatToString(date.year), 4, "0") \o "-" \o TwoDigits(date.month)
        \o "-" \o TwoDigits(date.day) \o " " \o TwoDigits(sod \div 3600)
        \o ":" \o TwoDigits((sod % 3600) \div 60) \o ":" \o TwoDigits(sod % 60)

\* Clickhouse toString(DateTime64(S)): the seconds, then S fractional digits
toStringDateTime64(value) ==
    formatDateTime(value)
    \o (IF value.scale = 0 THEN ""
        ELSE "." \o lpad(NatToString(value.ticks), value.scale, "0"))

\* the rounded seconds brought back at the column's precision instead of 6
RoundedTimestamp_ScaledToPrecision(value, prec) ==
    toStringDateTime64(
        toDateTime64OfFloat(
            roundFloat(DivMillion(toUnixTimestamp64Micro(toDateTime64(value, 6))), prec),
            prec))

\* lines 160-162
RoundedTimestamp(value, prec) ==
    toStringDateTime64(
        toDateTime64OfFloat(
            roundFloat(DivMillion(toUnixTimestamp64Micro(toDateTime64(value, 6))), prec),
            6))

\* the microseconds of the value as it is, not cut to the column's precision
PaddedFractional_FullScale(value, prec) ==
    lpad(NatToString(ModMillion(toUnixTimestamp64Micro(toDateTime64(value, 6)))),
         6, "0")

\* lines 164-165
PaddedFractional(value, prec) ==
    lpad(NatToString(ModMillion(toUnixTimestamp64Micro(toDateTime64(value, prec)))),
         6, "0")

\* lines 166-167
TruncatedTimestamp(value, prec) ==
    rpad(formatDateTime(value) \o "." \o PaddedFractional(value, prec),
         TIMESTAMP_PRECISION_POS + 6, "0")

normalize_timestamp(value, coltype) ==
    IF coltype.rounds
    THEN RoundedTimestamp(value, coltype.precision)
    ELSE TruncatedTimestamp(value, coltype.precision)

SecondSamples ==
    { 0, 59, 3599, 86399, 951782399, 951868799, 1078099199, 1700000000,
      1704067199, 1900000000 }

MicroSamples ==
    { m * Pow10(k) : m \in 0 .. MaxMantissa, k \in 0 .. 5 }
    \cup { 1000000 - m * Pow10(k) : m \in 1 .. MaxMantissa, k \in 0 .. 5 }
    \cup { 123456, 654321 }

Instants ==
    { DateTime64(s, us, 6) :
        s \in SecondSamples, us \in { u \in MicroSamples : u >= 0 /\ u < 1000000 } }

TemporalTypes ==
    [precision : 0 .. MaxTsPrecision, rounds : BOOLEAN]

(***************************************************************************)
(* Checksums.  A digest is the text of hex(MD5(s)): MD5_HEXDIGITS upper    *)
(* case hex characters.  An integer wider than a machine word is a         *)
(* sequence of limbs, least significant first, in base 2^24 (three bytes). *)
(***************************************************************************)
MD5_HEXDIGITS == 32

CHECKSUM_HEXDIGITS == 14

\* three bytes to a limb
LimbBits == 3 * 8

LimbBase == Pow2(LimbBits)

\* UInt128: 16 bytes, held in 6 limbs
UInt128Limbs == (16 + 2) \div 3

\* CHECKSUM_MASK // 2 = 2^(4 * CHECKSUM_HEXDIGITS - 1) - 1
CHECKSUM_OFFSET ==
    LET bits == 4 * CHECKSUM_HEXDIGITS - 1
    IN  [i \in 1 .. UInt128Limbs |->
            IF LimbBits * i <= bits THEN LimbBase - 1
            ELSE IF LimbBits * (i - 1) < bits THEN Pow2(bits - LimbBits * (i - 1)) - 1
            ELSE 0]

UpperHex == "0123456789ABCDEF"

LowerHex == "0123456789abcdef"

\* Clickhouse substr(s, offset): from the 1-based offset to the end
substr(s, offset) == SubSeq(s, offset, Len(s))

LowerChar(c) ==
    IF \E i \in 1 .. 16 : CharAt(UpperHex, i) = c
    THEN CharAt(LowerHex, CHOOSE i \in 1 .. 16 : CharAt(UpperHex, i) = c)
    ELSE c

RECURSIVE lowerUTF8(_)
lowerUTF8(s) ==
    IF s = "" THEN "" ELSE LowerChar(CharAt(s, 1)) \o lowerUTF8(SubSeq(s, 2, Len(s)))

HexValue(c) ==
    (CHOOSE i \in 1 .. 16 : CharAt(LowerHex, i) = c \/ CharAt(UpperHex, i) = c) - 1

RECURSIVE unhexPairs(_)
unhexPairs(s) ==
    IF s = "" THEN <<>>
    ELSE <<16 * HexValue(CharAt(s, 1)) + HexValue(CharAt(s, 2))>>
         \o unhexPairs(SubSeq(s, 3, Len(s)))

\* Clickhouse unhex(s): one byte per two hex digits; an odd first digit is a
\* byte of its own
unhex(s) ==
    IF Len(s) % 2 = 1
    THEN <<HexValue(CharAt(s, 1))>> \o unhexPairs(SubSeq(s, 2, Len(s)))
    ELSE unhexPairs(s)

RECURSIVE reverse(_)
reverse(b) == IF b = <<>> THEN <<>> ELSE reverse(Tail(b)) \o <<Head(b)>>

ByteAt(b, i) == IF i <= Len(b) THEN b[i] ELSE 0

\* Clickhouse reinterpretAsUInt128(bytes): the first 16 bytes, little endian,
\* missing bytes are zero
reinterpretAsUInt128(b) ==
    [i \in 1 .. UInt128Limbs |->
        LET at(j) == IF j <= 16 THEN ByteAt(b, j) ELSE 0
        IN  at(3 * i - 2) + 256 * at(3 * i - 1) + 65536 * at(3 * i)]

RECURSIVE BigLess(_, _, _)
\* a < b, comparing the limbs from the i-th down
BigLess(a, b, i) ==
    IF i = 0 THEN FALSE
    ELSE IF a[i] # b[i] THEN a[i] < b[i]
    ELSE BigLess(a, b, i - 1)

RECURSIVE BigSubLimbs(_, _, _, _)
\* the limbs of a - b from limb i on with the borrow so far, for a >= b
BigSubLimbs(a, b, i, borrow) ==
    IF i > Len(a) THEN <<>>
    ELSE LET d == a[i] - b[i] - borrow
         IN  <<IF d < 0 THEN d + LimbBase ELSE d>>
             \o BigSubLimbs(a, b, i + 1, IF d < 0 THEN 1 ELSE 0)

\* UInt128 - integer literal: the signed difference
BigMinus(a, b) ==
    IF BigLess(a, b, Len(a))
    THEN [negative |-> TRUE, limbs |-> BigSubLimbs(b, a, 1, 0)]
    ELSE [negative |-> FALSE, limbs |-> BigSubLimbs(a, b, 1, 0)]

\* the start of the window counted from 0
substr_idx_ZeroBased == MD5_HEXDIGITS - CHECKSUM_HEXDIGITS

\* line 105
substr_idx == 1 + MD5_HEXDIGITS - CHECKSUM_HEXDIGITS

\* line 107, inside out: the hex digits that are kept
ChecksumWindow(digest) == lowerUTF8(substr(digest, substr_idx))

md5_as_int(digest) ==
    BigMinus(reinterpretAsUInt128(reverse(unhex(ChecksumWindow(digest)))),
             CHECKSUM_OFFSET)

HexSamples == { "0", "7", "9", "A", "F" }

\* digests that differ just before the window, at both ends of it and inside
Digests ==
    { Repeat(f, MD5_HEXDIGITS - CHECKSUM_HEXDIGITS - 1) \o a \o b
      \o Repeat(f, CHECKSUM_HEXDIGITS - 3) \o c \o d :
        f \in { "0", "8", "F" }, a \in HexSamples, b \in HexSamples,
        c \in { "0", "3", "F" }, d \in HexSamples }

(***************************************************************************)
(* The connection: SingleConnection keeps the driver's list of cursors.    *)
(***************************************************************************)
None == "None"

\* the driver's Connection.cursor(): a new cursor, appended to self.cursors
SuperCursor(cs) == Append(cs, [id |-> Len(cs) + 1, factory |-> "Cursor"])

\* a cursor is made on every call
NoCursorYet_Always(cs) == TRUE

\* line 192
NoCursorYet(cs) == Len(cs) = 0

\* lines 192-194: the cursor list after the call; the call returns its head
CursorList(cs, cursor_factory) ==
    IF NoCursorYet(cs) THEN SuperCursor(cs) ELSE cs

(***************************************************************************)
(* The state machine.                                                      *)
(***************************************************************************)
Init ==
    /\ pc = "call"
    /\ result = None
    /\ cursors = <<>>
    /\ returned = <<>>
    /\ \/ \E t \in RawTypes :
            call = [fn |-> "parse_type", info |-> RawColumnInfo(t)]
       \/ \E v \in NumberValues, p \in NumberPrecisions :
            call = [fn |-> "normalize_number", value |-> v, precision |-> p]
       \/ \E v \in Instants, t \in TemporalTypes :
            call = [fn |-> "normalize_timestamp", value |-> v, coltype |-> t]
       \/ \E d \in Digests :
            call = [fn |-> "md5_as_int", digest |-> d]
       \/ call = [fn |-> "create_connection"]

Return(value) ==
    /\ pc' = "done"
    /\ result' = value
    /\ UNCHANGED <<call, cursors, returned>>

ParseType ==
    /\ pc = "call" /\ call.fn = "parse_type"
    /\ Return(parse_type(call.info))

NormalizeNumber ==
    /\ pc = "call" /\ call.fn = "normalize_number"
    /\ Return(normalize_number(call.value, call.precision))

NormalizeTimestamp ==
    /\ pc = "call" /\ call.fn = "normalize_timestamp"
    /\ Return(normalize_timestamp(call.value, call.coltype))

Md5AsInt ==
    /\ pc = "call" /\ call.fn = "md5_as_int"
    /\ Return(md5_as_int(call.digest))

\* lines 196-197: the connection is made, its cursor list empty
CreateConnection ==
    /\ pc = "call" /\ call.fn = "create_connection"
    /\ pc' = "connected"
    /\ result' = "SingleConnection"
    /\ cursors' = <<>>
    /\ UNCHANGED <<call, returned>>

\* lines 198-199: the driver refuses, the error is passed on as ConnectError
CreateConnectionFails ==
    /\ pc = "call" /\ call.fn = "create_connection"
    /\ Return("ConnectError")

\* lines 191-194
Cursor ==
    /\ pc = "connected"
    /\ Len(returned) < MaxCalls
    /\ \E cursor_factory \in { None, "DictCursor" } :
        /\ cursors' = CursorList(cursors, cursor_factory)
        /\ returned' = Append(returned, cursors'[1])
    /\ UNCHANGED <<pc, call, result>>

Next ==
    \/ ParseType
    \/ NormalizeNumber
    \/ NormalizeTimestamp
    \/ Md5AsInt
    \/ CreateConnection
    \/ CreateConnectionFails
    \/ Cursor

Spec == Init /\ [][Next]_vars

(***************************************************************************)
(* Properties.                                                             *)
(***************************************************************************)
Done(fn) == pc = "done" /\ call.fn = fn

IsDigit(c) == \E i \in 1 .. 10 : CharAt(DecimalDigits, i) = c

\* the position of the first c in s, Len(s) + 1 when there is none
IndexOf(s, c) ==
    IF \E i \in 1 .. Len(s) : CharAt(s, i) = c
    THEN CHOOSE i \in 1 .. Len(s) :
            /\ CharAt(s, i) = c
            /\ \A j \in 1 .. (i - 1) : CharAt(s, j) # c
    ELSE Len(s) + 1

RECURSIVE ParseNat(_)
ParseNat(s) ==
    IF s = "" THEN 0
    ELSE 10 * ParseNat(SubSeq(s, 1, Len(s) - 1))
         + ((CHOOSE i \in 1 .. 10 : CharAt(DecimalDigits, i) = CharAt(s, Len(s))) - 1)

\* the Decimal of the given scale that a decimal text denotes
ParseDecimal(text, scale) ==
    LET neg  == startswith(text, "-")
        body == IF neg THEN SliceFrom(text, 1) ELSE text
        dot  == IndexOf(body, ".")
        u    == ParseNat(SubSeq(body, 1, dot - 1)) * Pow10(scale)
                + ParseNat(rpad(SubSeq(body, dot + 1, Len(body)), scale, "0"))
    IN  Decimal(IF neg THEN -u ELSE u, scale)

\* the fixed-format text of a value at p fractional digits: the sign, the
\* integer part of the magnitude rounded to p digits, the point, p digits
CanonicalNumber(value, p) ==
    LET a == IF value.units < 0 THEN -value.units ELSE value.units
        r == IF p >= value.scale
             THEN a * Pow10(p - value.scale)
             ELSE (2 * a + Pow10(value.scale - p)) \div (2 * Pow10(value.scale - p))
    IN  (IF value.units < 0 THEN "-" ELSE "")
        \o NatToString(r \div Pow10(p)) \o "."
        \o lpad(NatToString(r % Pow10(p)), p, "0")

\* the value has no non-zero digit after its p-th fractional digit
HasAtMostDigits(value, p) ==
    \/ p >= value.scale
    \/ (IF value.units < 0 THEN -value.units ELSE value.units)
          % Pow10(value.scale - p) = 0

\* C1: for every value and every precision p >= 1 normalize_number yields
\* the sign iff the value is negative, the integer part of the rounded
\* magnitude, the point and exactly p fractional digits, also when rounding
\* carries the magnitude across a power of ten.
C1_FixedFormat ==
    (Done("normalize_number") /\ call.precision >= 1)
        => result = CanonicalNumber(call.value, call.precision)

\* the type name of a raw type string: without the Nullable(...) wrapper and
\* without the parameter list
TypeName(raw) ==
    LET inner == IF startswith(raw, nullable_prefix) /\ CharAt(raw, Len(raw)) = ")"
                 THEN SubSeq(raw, Len(nullable_prefix) + 1, Len(raw) - 1)
                 ELSE raw
    IN  SubSeq(inner, 1, IndexOf(inner, "(") - 1)

\* C2: for every raw type string T that is classified (a table name, or a
\* parameterized family of a table name) T classifies as its type name does,
\* and Nullable(T) classifies as T does.
C2_NullableAndFamily ==
    Done("parse_type") =>
        \A t \in UnwrappedTypes :
            (/\ TypeName(t) \in DOMAIN TYPE_CLASSES
             /\ parse_type(RawColumnInfo(t)) # UnsupportedType)
                => /\ call.info.type_repr = t
                        => result = TYPE_CLASSES[TypeName(t)]
                   /\ call.info.type_repr = Nullable(t)
                        => result = parse_type(RawColumnInfo(t))

\* C3: a raw type string whose type name is not a key of TYPE_CLASSES fails
\* with UnsupportedType.
C3_UnknownNameFails ==
    (Done("parse_type") /\ TypeName(call.info.type_repr) \notin DOMAIN TYPE_CLASSES)
        => result = UnsupportedType

RECURSIVE BigAddLimbs(_, _, _, _)
BigAddLimbs(a, b, i, carry) ==
    IF i > Len(a) THEN <<>>
    ELSE LET t == a[i] + b[i] + carry
         IN  <<t % LimbBase>> \o BigAddLimbs(a, b, i + 1, t \div LimbBase)

\* the k-th hex digit of the digest counted from its end, k = 0 the last
DigitFromEnd(digest, k) ==
    IF k < CHECKSUM_HEXDIGITS /\ k < Len(digest)
    THEN HexValue(CharAt(digest, Len(digest) - k))
    ELSE 0

RECURSIVE HexLimb(_, _, _)
\* hex digits k .. k + n - 1 from the end, the one nearer the end least
HexLimb(digest, k, n) ==
    IF n = 0 THEN 0
    ELSE DigitFromEnd(digest, k) + 16 * HexLimb(digest, k + 1, n - 1)

\* the trailing CHECKSUM_HEXDIGITS characters read as one unsigned number,
\* the first of them most significant
TrailingValue(digest) ==
    [i \in 1 .. UInt128Limbs |-> HexLimb(digest, 6 * (i - 1), 6)]

\* C4: md5_as_int keeps the digest from index 1 + MD5_HEXDIGITS -
\* CHECKSUM_HEXDIGITS to its end, which is exactly its trailing
\* CHECKSUM_HEXDIGITS characters; it reads them as an unsigned number, the
\* first character most significant, and subtracts CHECKSUM_OFFSET.
C4_TrailingWindow ==
    Done("md5_as_int") =>
        LET window == substr(call.digest, substr_idx)
        IN  /\ substr_idx >= 1
            /\ Len(window) <= Len(call.digest)
            /\ Len(window) = CHECKSUM_HEXDIGITS
            /\ window = SubSeq(call.digest,
                               Len(call.digest) - CHECKSUM_HEXDIGITS + 1,
                               Len(call.digest))
            /\ IF result.negative
               THEN BigAddLimbs(result.limbs, TrailingValue(call.digest), 1, 0)
                        = CHECKSUM_OFFSET
               ELSE BigAddLimbs(result.limbs, CHECKSUM_OFFSET, 1, 0)
                        = TrailingValue(call.digest)

C4_Witness ==
    /\ Done("md5_as_int")
    /\ call.digest = "88888888888888888AF88888888888FA"
    /\ ~result.negative

\* YYYY-MM-DD HH:MM:SS.ffffff
TimestampShape(s) ==
    \A i \in 1 .. Len(s) :
        IF i \in { 5, 8 } THEN CharAt(s, i) = "-"
        ELSE IF i = 11 THEN CharAt(s, i) = " "
        ELSE IF i \in { 14, 17 } THEN CharAt(s, i) = ":"
        ELSE IF i = TIMESTAMP_PRECISION_POS THEN CharAt(s, i) = "."
        ELSE IsDigit(CharAt(s, i))

C6_PoliciesAgree ==
    Done("normalize_timestamp") =>
        result = normalize_timestamp(
                     call.value,
                     [call.coltype EXCEPT !.rounds = ~call.coltype.rounds])

\* C7: a value that has at most p fractional digits is the value of its own
\* canonical text, and normalizing that text's value again yields the text.
C7_Idempotent ==
    (/\ Done("normalize_number")
     /\ call.precision >= 1
     /\ HasAtMostDigits(call.value, call.precision))
        => /\ result = CanonicalNumber(call.value, call.precision)
           /\ ParseDecimal(result, call.value.scale) = call.value
           /\ normalize_number(ParseDecimal(result, call.value.scale),
                               call.precision) = result

C7_Witness ==
    /\ Done("normalize_number")
    /\ call.precision = 2
    /\ call.value.units = -1100
    /\ HasAtMostDigits(call.value, call.precision)
    /\ result = "-1.10"

\* C8: zero normalizes to "0." and p zeros without a sign: the prefix is
\* empty and the integer digit count is 1 although log10(0) is not finite.
C8_Zero ==
    (Done("normalize_number") /\ call.precision >= 1 /\ call.value.units = 0)
        => /\ result = "0." \o Repeat("0", call.precision)
           /\ SignPrefix(call.value) = ""
           /\ ~floor_log10(abs(call.value)).finite
           /\ SliceLength(call.value, call.precision) = 1 + 1 + call.precision

C8_Witness ==
    /\ Done("normalize_number")
    /\ call.value.units = 0
    /\ call.precision = 2
    /\ result = "0.00"

\* the microsecond of the second as 6 digits, the last 6 - p made "0"
TruncatedFraction(us, p) ==
    LET six == lpad(NatToString(us), 6, "0")
    IN  SubSeq(six, 1, Min(p, 6)) \o Repeat("0", 6 - Min(p, 6))

C10_SingleCursor ==
    (pc = "connected" /\ Len(returned) >= 1)
        => /\ Len(cursors) = 1
           /\ cursors[1].id = 1
           /\ \A i \in 1 .. Len(returned) : returned[i] = cursors[1]

C10_Witness ==
    /\ pc = "connected"
    /\ Len(returned) >= 3
    /\ Len(cursors) = 1

====
